---- MODULE Spec2Model ----
(***************************************************************************)
(* tigertamer: the location-code engine of lib/util/parser.py.             *)
(*                                                                         *)
(* Strings that the code takes apart (the count column, the cab number     *)
(* `no`, and every other column, which the constructor strips) are         *)
(* sequences of one-character strings, so that split(), partition(),       *)
(* strip(), int(), str() and the two regular expressions are computed      *)
(* character by character as Python computes them.                         *)
(***************************************************************************)
EXTENDS Integers, Sequences, FiniteSets, TLC

VARIABLES pc, row, part, cabparts, mozfiles, parts, inputs, calls, err,
          master, lines, nosplit, otherpart, similar,
          mastertree, merged, outlines, reparsed,
          lockfile, procs,
          fsdirs, fsfiles, finished, archfile,
          disk, configs, increments

vars == <<pc, row, part, cabparts, mozfiles, parts, inputs, calls, err,
          master, lines, nosplit, otherpart, similar,
          mastertree, merged, outlines, reparsed,
          lockfile, procs,
          fsdirs, fsfiles, finished, archfile,
          disk, configs, increments>>

\* The state of a master file being read, and of a comparison of two parts.
masterVars == <<master, lines, nosplit>>

pairVars == <<otherpart, similar>>

\* The tree of a master file, its last merge, and its lines parsed again.
treeVars == <<mastertree, merged, outlines, reparsed>>

\* The lock file, and the processes that run entry_point.
lockVars == <<lockfile, procs>>

\* The directories and files on disk, the file being archived and the archive file.
archVars == <<fsdirs, fsfiles, finished, archfile>>

\* The config file, the config each process holds in memory, and the increments saved so far.
cfgVars == <<disk, configs, increments>>

(***************************************************************************)
(* Bounds of the model.                                                    *)
(***************************************************************************)
\* Room-parts (space separated) in a generated location.
MaxRooms == 2
\* Cab tokens ('&' separated) in a generated room-part.
MaxCabs == 2
\* Records appended to a width file before it is combined.
MaxParts == 2
\* Calls of combine_parts() on one width file.
MaxCombines == 2

(***************************************************************************)
(* Characters and Python's string primitives.                              *)
(***************************************************************************)
DigitChars == <<"0", "1", "2", "3", "4", "5", "6", "7", "8", "9">>

IsDigit(c) == \E i \in 1..10 : DigitChars[i] = c

DigitVal(c) == (CHOOSE i \in 1..10 : DigitChars[i] = c) - 1

\* int(s) for a string of decimal digits.
RECURSIVE StrToInt(_)
StrToInt(s) ==
    IF Len(s) = 0 THEN 0
    ELSE 10 * StrToInt(SubSeq(s, 1, Len(s) - 1)) + DigitVal(s[Len(s)])

\* int(s) succeeds (no sign or blanks occur in the inputs that are drawn).
IsIntStr(s) == Len(s) > 0 /\ \A i \in 1..Len(s) : IsDigit(s[i])

\* str(n) for a natural number.
RECURSIVE IntToStr(_)
IntToStr(n) ==
    IF n < 10 THEN <<DigitChars[n + 1]>>
    ELSE IntToStr(n \div 10) \o <<DigitChars[(n % 10) + 1]>>

\* s.lower(), on the one letter the location grammar uses.
LowerChar(c) == IF c = "R" THEN "r" ELSE c

\* s.count(ch)
CountChar(s, ch) == Cardinality({i \in 1..Len(s) : s[i] = ch})

\* s.lower().count(ch)
CountLower(s, ch) == Cardinality({i \in 1..Len(s) : LowerChar(s[i]) = ch})

\* ch in s
HasChar(s, ch) == \E i \in 1..Len(s) : s[i] = ch

\* Index of the first ch in s, 0 when there is none.
FirstIndex(s, ch) ==
    IF HasChar(s, ch)
    THEN CHOOSE i \in 1..Len(s) : s[i] = ch /\ \A j \in 1..(i - 1) : s[j] # ch
    ELSE 0

\* s.split(ch): the pieces between separators, empty pieces included.
RECURSIVE SplitOn(_, _)
SplitOn(s, ch) ==
    LET i == FirstIndex(s, ch)
    IN  IF i = 0 THEN <<s>>
        ELSE <<SubSeq(s, 1, i - 1)>> \o SplitOn(SubSeq(s, i + 1, Len(s)), ch)

\* s.partition(ch): <<head, sep, tail>>.
Partition(s, ch) ==
    LET i == FirstIndex(s, ch)
    IN  IF i = 0 THEN <<s, <<>>, <<>>>>
        ELSE <<SubSeq(s, 1, i - 1), <<ch>>, SubSeq(s, i + 1, Len(s))>>

\* sep.join(pieces)
RECURSIVE Join(_, _)
Join(pieces, sep) ==
    IF Len(pieces) = 0 THEN <<>>
    ELSE IF Len(pieces) = 1 THEN pieces[1]
    ELSE pieces[1] \o sep \o Join(Tail(pieces), sep)

\* s.strip(): blanks removed at both ends.
RECURSIVE Strip(_)
Strip(s) ==
    IF Len(s) = 0 THEN s
    ELSE IF s[1] = " " THEN Strip(Tail(s))
    ELSE IF s[Len(s)] = " " THEN Strip(SubSeq(s, 1, Len(s) - 1))
    ELSE s

\* Sum of a sequence of integers.
RECURSIVE SumSeq(_)
SumSeq(ns) == IF Len(ns) = 0 THEN 0 ELSE ns[1] + SumSeq(Tail(ns))

\* The element of a one-element set.  {e : x \in {v}} is e with x bound to
\* v, the way a local variable of the code holds the result of a call.
Only(S) == CHOOSE x \in S : TRUE

\* Concatenation of a sequence of sequences.
RECURSIVE Flatten(_)
Flatten(ss) == IF Len(ss) = 0 THEN <<>> ELSE ss[1] \o Flatten(Tail(ss))

(***************************************************************************)
(* The quantity pattern \((\d{1,3})\) and its two uses.                    *)
(***************************************************************************)
\* Most digits the pattern takes between the parentheses.
MaxQtyDigits == 3

\* Number of digits of a match of the pattern at position i, 0 for no match.
MatchLen(s, i) ==
    IF s[i] = "("
       /\ \E k \in 1..MaxQtyDigits :
             /\ i + k + 1 <= Len(s)
             /\ \A j \in 1..k : IsDigit(s[i + j])
             /\ s[i + k + 1] = ")"
    THEN CHOOSE k \in 1..MaxQtyDigits :
             /\ i + k + 1 <= Len(s)
             /\ \A j \in 1..k : IsDigit(s[i + j])
             /\ s[i + k + 1] = ")"
    ELSE 0

\* cab_multi_count_pat.findall(s), scanning from position i.
RECURSIVE FindAllFrom(_, _)
FindAllFrom(s, i) ==
    IF i > Len(s) THEN <<>>
    ELSE LET k == MatchLen(s, i)
         IN  IF k > 0
             THEN <<SubSeq(s, i + 1, i + k)>> \o FindAllFrom(s, i + k + 2)
             ELSE FindAllFrom(s, i + 1)

cab_multi_count_pat(s) == FindAllFrom(s, 1)

\* re.sub(pattern, '', s), scanning from position i.
RECURSIVE SubFrom(_, _)
SubFrom(s, i) ==
    IF i > Len(s) THEN <<>>
    ELSE LET k == MatchLen(s, i)
         IN  IF k > 0 THEN SubFrom(s, i + k + 2)
             ELSE <<s[i]>> \o SubFrom(s, i + 1)

trim_cab_count(cabno) == SubFrom(cabno, 1)

RECURSIVE SumInts(_)
SumInts(strs) ==
    IF Len(strs) = 0 THEN 0 ELSE StrToInt(strs[1]) + SumInts(Tail(strs))

\* MozaikMasterPart.get_cab_count: the sum of the (n) groups, or 1.
get_cab_count(cabno) ==
    LET allcounts == cab_multi_count_pat(cabno)
    IN  IF Len(allcounts) > 0 THEN SumInts(allcounts) ELSE 1

(***************************************************************************)
(* MozaikMasterPart / MozaikPart.  A part is a record of its header        *)
(* fields; a MozaikPart is the same record without the width field.        *)
(***************************************************************************)
DrawerFrontSize ==
    <<"{", "D", "r", "a", "w", "e", "r", " ", "F", "r", "o", "n", "t", " ",
      "S", "i", "z", "e", "}">>

DrawerFront ==
    <<"D", "r", "a", "w", "e", "r", " ", "F", "r", "o", "n", "t">>

\* MozaikMasterPart.value_map: replacements for certain attributes.
value_map(k, v) == IF k = "type" /\ v = DrawerFrontSize THEN DrawerFront ELSE v

\* MozaikMasterPart.has_multi_cab
has_multi_cab(self) == HasChar(self.no, "&")

\* has_multi_room without lower(): only a lower-case r counts as a marker.
has_multi_room_nolower(self) ==
    CountChar(self.no, "r") > 1 /\ HasChar(self.no, " ")

\* has_multi_room with the marker count off by one.
has_multi_room_one(self) ==
    CountLower(self.no, "r") > 0 /\ HasChar(self.no, " ")

\* MozaikMasterPart.has_multi_room
has_multi_room(self) == CountLower(self.no, "r") > 1 /\ HasChar(self.no, " ")

\* MozaikMasterPart.has_multi
has_multi(self) ==
    IF Len(self.no) = 0 THEN FALSE
    ELSE has_multi_cab(self) \/ has_multi_room(self)

\* The generator of fix_cab_count: one get_cab_count per room, per cab.
CabCounts(no) ==
    LET rooms == SplitOn(no, " ")
    IN  Flatten([i \in 1..Len(rooms) |->
            LET cabs == SplitOn(rooms[i], "&")
            IN  [j \in 1..Len(cabs) |-> get_cab_count(cabs[j])]])

\* fix_cab_count without the has_multi() test: the count is always
\* recomputed.
fix_cab_count_always(self) ==
    [self EXCEPT !.count = SumSeq(CabCounts(self.no))]

\* MozaikMasterPart.fix_cab_count
fix_cab_count(self) ==
    IF ~has_multi(self) THEN self
    ELSE [self EXCEPT !.count = SumSeq(CabCounts(self.no))]

\* MozaikMasterPart.__init__ on a dict whose count is already an int:
\* every column is mapped and stripped, a cab number that is missing
\* becomes '', then the count is fixed.
MozaikMasterPart(data) ==
    fix_cab_count(
        [k \in (DOMAIN data) \cup {"no"} |->
            IF k \notin DOMAIN data THEN <<>>
            ELSE IF k = "count" THEN data[k]
            ELSE Strip(value_map(k, data[k]))])

\* MozaikMasterPart.copy: a new instance built from the fields.
copy(self) == MozaikMasterPart(self)

R1Prefix == <<"R", "1", ":">>

\* split_rooms cutting at '&' before it cuts at blanks: a piece can keep
\* two rooms.
split_rooms_amp(self) ==
    IF ~has_multi_room(self) THEN <<self>>
    ELSE LET roomnos == IF HasChar(self.no, "&") THEN SplitOn(self.no, "&")
                        ELSE SplitOn(self.no, " ")
         IN  [i \in 1..Len(roomnos) |->
                [copy(self) EXCEPT
                    !.no = roomnos[i],
                    !.count = CountChar(roomnos[i], "&")
                              + get_cab_count(roomnos[i])]]

\* MozaikMasterPart.split_rooms.  When the part is not multi-room the
\* result is the part itself, not a copy.
split_rooms(self) ==
    IF ~has_multi_room(self) THEN <<self>>
    ELSE LET roomnos == SplitOn(self.no, " ")
         IN  IF Len(roomnos) = 1 THEN <<copy(self)>>
             ELSE [i \in 1..Len(roomnos) |->
                    [copy(self) EXCEPT
                        !.no = roomnos[i],
                        !.count = CountChar(roomnos[i], "&")
                                  + get_cab_count(roomnos[i])]]

\* One pass of the loop of split_room_cabs over a room part: the room part
\* as the loop leaves it, the cab parts it appends, and whether the room
\* part was put aside as multi-room.
RoomCabs(roompart) ==
    IF has_multi_room(roompart)
    THEN [after |-> roompart, out |-> <<>>, multiroom |-> TRUE]
    ELSE LET named == IF ~HasChar(roompart.no, ":")
                      THEN [roompart EXCEPT !.no = R1Prefix \o roompart.no]
                      ELSE roompart
             pt == Partition(named.no, ":")
             roomno == pt[1]
             cabs == pt[3]
             cabnos == SplitOn(cabs, "&")
         IN  IF Len(cabnos) = 1
             THEN LET single == [named EXCEPT
                                    !.count = get_cab_count(named.no)]
                  IN  [after |-> single, out |-> <<single>>,
                       multiroom |-> FALSE]
             ELSE [after |-> named,
                   out |-> [i \in 1..Len(cabnos) |->
                              [copy(named) EXCEPT
                                  !.no = roomno \o <<":">> \o cabnos[i],
                                  !.count = get_cab_count(cabnos[i])]],
                   multiroom |-> FALSE]

\* MozaikMasterPart.split_room_cabs: the cab parts of every room part, then
\* the cab parts of the room parts that were put aside, split again.
RECURSIVE split_room_cabs(_)
split_room_cabs(roomparts) ==
    Only({LET direct == Flatten([i \in 1..Len(roomparts) |-> passes[i].out])
              deferredroomparts ==
                  Flatten([i \in 1..Len(roomparts) |->
                      IF passes[i].multiroom THEN split_rooms(roomparts[i])
                      ELSE <<>>])
          IN  IF \E i \in 1..Len(roomparts) : passes[i].multiroom
              THEN direct \o split_room_cabs(deferredroomparts)
              ELSE direct :
          passes \in {[i \in 1..Len(roomparts) |-> RoomCabs(roomparts[i])]}})

\* MozaikMasterPart.split_parts: the list it returns, and the receiver as
\* the call leaves it (split_rooms hands the receiver itself to
\* split_room_cabs when it is not multi-room, and the loop writes to it).
split_parts(self) ==
    IF ~has_multi(self) THEN [self |-> self, parts |-> <<self>>]
    ELSE [self |-> IF has_multi_room(self) THEN self
                   ELSE RoomCabs(self).after,
          parts |-> split_room_cabs(split_rooms(self))]

(***************************************************************************)
(* MozaikPartTree.  A Python dict keeps its keys in insertion order, so a  *)
(* dict is a sequence of entries [k, v]; a value is a tagged record:       *)
(* either a nested tree with its label, or an integer count.               *)
(***************************************************************************)
\* MozaikPartTree(items, label=label); a plain dict has the label "".
Tree(label, items) ==
    [isdict |-> TRUE, label |-> label, items |-> items, n |-> 0]

\* An integer value.
Leaf(n) == [isdict |-> FALSE, label |-> "", items |-> <<>>, n |-> n]

\* k in d
HasKey(items, k) == \E i \in 1..Len(items) : items[i].k = k

\* d[k]
GetKey(items, k) == items[CHOOSE i \in 1..Len(items) : items[i].k = k].v

\* d[k] = v: an existing key keeps its position, a new key goes last.
SetKey(items, k, v) ==
    IF HasKey(items, k)
    THEN [i \in 1..Len(items) |->
            IF items[i].k = k THEN [k |-> k, v |-> v] ELSE items[i]]
    ELSE Append(items, [k |-> k, v |-> v])

\* MozaikPartTree.get_label
get_label(d) == IF d.label = "" THEN "None" ELSE d.label

\* The setdefault chain of tree() followed by `+= part.count`: keys is the
\* path below d, labels the labels of the trees created along it.
RECURSIVE AddPath(_, _, _, _)
AddPath(d, keys, labels, count) ==
    LET k == keys[1]
    IN  IF Len(keys) = 1
        THEN LET old == IF HasKey(d.items, k) THEN GetKey(d.items, k).n ELSE 0
             IN  [d EXCEPT !.items = SetKey(d.items, k, Leaf(old + count))]
        ELSE LET child == IF HasKey(d.items, k) THEN GetKey(d.items, k)
                          ELSE Tree(labels[1], <<>>)
             IN  [d EXCEPT !.items =
                    SetKey(d.items, k,
                           AddPath(child, Tail(keys), Tail(labels), count))]

\* The loop of MozaikPart.tree / MozaikMasterPart.tree over the split
\* parts, from the i-th on.  `room, cab = part.no.split(':')` raises
\* ValueError unless there are exactly two pieces.
RECURSIVE TreeLoop(_, _, _)
TreeLoop(tree, subs, i) ==
    IF i > Len(subs) THEN [err |-> "none", tree |-> tree]
    ELSE LET sub == subs[i]
             pieces == SplitOn(sub.no, ":")
         IN  IF Len(pieces) # 2 THEN [err |-> "ValueError", tree |-> tree]
             ELSE LET room == pieces[1]
                      cab == trim_cab_count(pieces[2])
                      keys == IF "width" \in DOMAIN sub
                              THEN <<room, cab, sub.width, sub.length,
                                     sub.extra_data, sub.type>>
                              ELSE <<room, cab, sub.length,
                                     sub.extra_data, sub.type>>
                      labels == IF "width" \in DOMAIN sub
                                THEN <<"cab", "width", "length",
                                       "extra_data", "type">>
                                ELSE <<"cab", "length", "extra_data", "type">>
                  IN  TreeLoop(AddPath(tree, keys, labels, sub.count),
                               subs, i + 1)

\* MozaikPart.tree / MozaikMasterPart.tree: the tree of the part's split
\* parts (labelled 'room'), the error it raises if any, and the part as
\* split_parts() leaves it.
part_tree(self) ==
    Only({Only({[err |-> r.err,
                 tree |-> Tree("room", r.tree.items),
                 self |-> sp.self] :
                r \in {TreeLoop(Tree("", <<>>), sp.parts, 1)}}) :
          sp \in {split_parts(self)}})

\* merge_dicts with `d[k] = v` for `d[k] += v`.
RECURSIVE MergeFromAssign(_, _, _)
MergeFromAssign(d, d2, i) ==
    IF i > Len(d2) THEN d
    ELSE LET k == d2[i].k
             v == d2[i].v
         IN  IF ~HasKey(d, k)
             THEN MergeFromAssign(Append(d, d2[i]), d2, i + 1)
             ELSE IF v.isdict
             THEN MergeFromAssign(
                     SetKey(d, k,
                            Tree(GetKey(d, k).label,
                                 MergeFromAssign(GetKey(d, k).items,
                                                 v.items, 1))),
                     d2, i + 1)
             ELSE MergeFromAssign(SetKey(d, k, Leaf(v.n)), d2, i + 1)

\* MozaikPartTree.merge_dicts: a copy of d1 into which the entries of d2,
\* from the i-th on, are merged.
RECURSIVE MergeFrom(_, _, _)
MergeFrom(d, d2, i) ==
    IF i > Len(d2) THEN d
    ELSE LET k == d2[i].k
             v == d2[i].v
         IN  IF ~HasKey(d, k) THEN MergeFrom(Append(d, d2[i]), d2, i + 1)
             ELSE IF v.isdict
             THEN MergeFrom(
                     SetKey(d, k,
                            Tree(GetKey(d, k).label,
                                 MergeFrom(GetKey(d, k).items, v.items, 1))),
                     d2, i + 1)
             ELSE MergeFrom(SetKey(d, k, Leaf(GetKey(d, k).n + v.n)),
                            d2, i + 1)

\* merge_dicts that takes the count of d2 where both trees have a leaf.
merge_dicts_assign(d1, d2) == MergeFromAssign(d1, d2, 1)

merge_dicts(d1, d2) == MergeFrom(d1, d2, 1)

\* MozaikPartTree.update
update(self, data) == [self EXCEPT !.items = merge_dicts(self.items, data.items)]

\* What iter_tree yields: a (level, label, key) triple, the count of a
\* leaf, or None after a leaf.
KeyEvent(level, label, val) ==
    [kind |-> "key", level |-> level, label |-> label, val |-> val, n |-> 0]

CountEvent(level, n) ==
    [kind |-> "count", level |-> level, label |-> "count", val |-> <<>>,
     n |-> n]

NoneEvent ==
    [kind |-> "none", level |-> 0, label |-> "", val |-> <<>>, n |-> 0]

\* MozaikPartTree.iter_tree
RECURSIVE iter_tree(_, _)
iter_tree(d, level) ==
    Flatten([i \in 1..Len(d.items) |->
        LET k == d.items[i].k
            v == d.items[i].v
        IN  IF ~v.isdict
            THEN <<KeyEvent(level, get_label(d), k), CountEvent(level, v.n),
                   NoneEvent>>
            ELSE <<KeyEvent(level, get_label(d), k)>>
                 \o iter_tree(v, level + 1)])

\* The labels a complete part is read from.
InfoLabels == {"room", "cab", "width", "length", "type", "extra_data"}

\* MozaikPartTree.iter_part_info over the events from the i-th on.
\* partinfo[label] = val or '': keys holds the string entries, count the
\* count entry, and blank tells that the count was 0 and so became ''.
\* Comparing '' with 1 raises TypeError; a label never set, KeyError.
RECURSIVE PartInfoFrom(_, _, _, _)
PartInfoFrom(events, i, partinfo, out) ==
    IF i > Len(events) THEN [err |-> "none", infos |-> out]
    ELSE LET ev == events[i]
         IN  IF ev.kind = "none"
             THEN IF ~({"room", "cab"} \subseteq DOMAIN partinfo.keys)
                     \/ ~partinfo.hascount
                  THEN [err |-> "KeyError", infos |-> out]
                  ELSE IF partinfo.blank
                  THEN [err |-> "TypeError", infos |-> out]
                  ELSE IF ~(InfoLabels \subseteq DOMAIN partinfo.keys)
                  THEN [err |-> "KeyError", infos |-> out]
                  ELSE LET plain == partinfo.keys["room"] \o <<":">>
                                    \o partinfo.keys["cab"]
                           no == IF partinfo.count > 1
                                 THEN plain \o <<"(">>
                                      \o IntToStr(partinfo.count) \o <<")">>
                                 ELSE plain
                           info == [count |-> IntToStr(partinfo.count),
                                    width |-> partinfo.keys["width"],
                                    length |-> partinfo.keys["length"],
                                    type |-> partinfo.keys["type"],
                                    no |-> no,
                                    extra_data |->
                                        partinfo.keys["extra_data"]]
                       IN  PartInfoFrom(events, i + 1, partinfo,
                                        Append(out, info))
             ELSE IF ev.kind = "count"
             THEN PartInfoFrom(events, i + 1,
                               [partinfo EXCEPT !.count = ev.n,
                                                !.hascount = TRUE,
                                                !.blank = (ev.n = 0)],
                               out)
             ELSE PartInfoFrom(events, i + 1,
                               [partinfo EXCEPT !.keys =
                                   [l \in (DOMAIN partinfo.keys) \cup {ev.label}
                                       |-> IF l = ev.label THEN ev.val
                                           ELSE partinfo.keys[l]]],
                               out)

iter_part_info(d) ==
    PartInfoFrom(iter_tree(d, 0), 1,
                 [keys |-> [l \in {} |-> <<>>], count |-> 0,
                  hascount |-> FALSE, blank |-> FALSE],
                 <<>>)

\* MozaikPart(d) on a dict of strings: the count column is stripped like
\* the others and goes through int().
MozaikPart(d) ==
    MozaikMasterPart([d EXCEPT !.count = StrToInt(Strip(d.count))])

\* d.pop('width')
PopWidth(d) == [k \in (DOMAIN d) \ {"width"} |-> d[k]]

\* MozaikPartTree.to_mozaikparts
to_mozaikparts(self) ==
    Only({[err |-> r.err,
           parts |-> [i \in 1..Len(r.infos) |->
                        MozaikPart(PopWidth(r.infos[i]))]] :
          r \in {iter_part_info(self)}})

\* The loop of MozaikFile.tree over the parts from the i-th on: the merged
\* tree, the parts as their split_parts() calls leave them, and the error
\* that stops the loop.
RECURSIVE FileTreeLoop(_, _, _)
FileTreeLoop(tree, ps, i) ==
    IF i > Len(ps) THEN [err |-> "none", tree |-> tree, parts |-> ps]
    ELSE Only({Only({IF r.err # "none"
                     THEN [err |-> r.err, tree |-> tree, parts |-> touched]
                     ELSE FileTreeLoop(update(tree, r.tree), touched, i + 1) :
                     touched \in {[ps EXCEPT ![i] = r.self]}}) :
               r \in {part_tree(ps[i])}})

\* MozaikFile.tree: the room tree under the file's width.
MozaikFile_tree(width, ps) ==
    Only({[err |-> r.err,
           tree |-> Tree("width", <<[k |-> width, v |-> r.tree]>>),
           parts |-> r.parts] :
          r \in {FileTreeLoop(Tree("room", <<>>), ps, 1)}})

\* MozaikFile.combine_parts: the parts of the file after the call and the
\* error the call raises, if any.  self.parts is assigned only when both
\* tree() and to_mozaikparts() return.
combine_parts(width, ps) ==
    Only({IF t.err # "none" THEN [err |-> t.err, parts |-> t.parts]
          ELSE Only({IF m.err # "none"
                     THEN [err |-> m.err, parts |-> t.parts]
                     ELSE [err |-> "none", parts |-> m.parts] :
                     m \in {to_mozaikparts(t.tree)}}) :
          t \in {MozaikFile_tree(width, ps)}})

\* MozaikMasterPart.__bool__: some header field is truthy.
part_bool(self) ==
    \E k \in DOMAIN self :
        IF k = "count" THEN self[k] # 0 ELSE Len(self[k]) > 0

\* MozaikMasterPart.similar_part; same tells that other is self.
similar_part(self, other, same) ==
    IF same THEN FALSE
    ELSE IF ~part_bool(other) THEN FALSE
    ELSE \A field \in (DOMAIN self) \ {"count"} :
            IF field = "no"
            THEN trim_cab_count(self.no) = trim_cab_count(other.no)
            ELSE self[field] = other[field]

(***************************************************************************)
(* MozaikMasterFile.into_width_files.                                      *)
(***************************************************************************)
\* The characters of a width column in ascending code point order.
WidthChars ==
    <<" ", ".", "0", "1", "2", "3", "4", "5", "6", "7", "8", "9">>

CharCode(c) == CHOOSE i \in 1..Len(WidthChars) : WidthChars[i] = c

\* a < b for Python strings.
RECURSIVE StrLess(_, _)
StrLess(a, b) ==
    IF Len(b) = 0 THEN FALSE
    ELSE IF Len(a) = 0 THEN TRUE
    ELSE IF a[1] = b[1] THEN StrLess(Tail(a), Tail(b))
    ELSE CharCode(a[1]) < CharCode(b[1])

\* sorted(keys, key=float): the widths in numeric order.
RECURSIVE SortedNums(_)
SortedNums(S) ==
    IF S = {} THEN <<>>
    ELSE LET least == CHOOSE a \in S :
                        \A b \in S \ {a} : StrToInt(a) < StrToInt(b)
         IN  <<least>> \o SortedNums(S \ {least})

\* sorted(keys) for a set of strings.
RECURSIVE SortedStrs(_)
SortedStrs(S) ==
    IF S = {} THEN <<>>
    ELSE LET least == CHOOSE a \in S : \A b \in S \ {a} : StrLess(a, b)
         IN  <<least>> \o SortedStrs(S \ {least})

\* The fields of MozaikFile.header.
FileHeader == {"count", "length", "type", "no", "extra_data"}

\* The loop of into_width_files that builds the MozaikFile of one width:
\* a MozaikPart is built from every master part of that width, appended,
\* and its count added to the file's count.
RECURSIVE WidthParts(_, _, _)
WidthParts(ps, width, i) ==
    IF i > Len(ps) THEN <<>>
    ELSE IF ps[i].width = width
    THEN <<MozaikMasterPart([f \in FileHeader |-> ps[i][f]])>>
         \o WidthParts(ps, width, i + 1)
    ELSE WidthParts(ps, width, i + 1)

\* MozaikMasterFile.into_width_files: the width files in sorted order of
\* their widths, each combined; the error of the first combine_parts that
\* raises ends the call.
into_width_files(ps) ==
    IF Len(ps) = 0 THEN [err |-> "none", files |-> <<>>]
    ELSE LET widths == SortedStrs({ps[i].width : i \in 1..Len(ps)})
         IN  Only({IF \E w \in 1..Len(widths) :
                         built[w].combined.err # "none"
                   THEN [err |->
                          built[CHOOSE w \in 1..Len(widths) :
                                  /\ built[w].combined.err # "none"
                                  /\ \A v \in 1..(w - 1) :
                                        built[v].combined.err = "none"
                               ].combined.err,
                         files |-> <<>>]
                   ELSE [err |-> "none",
                         files |-> [w \in 1..Len(widths) |->
                                      [width |-> built[w].width,
                                       count |-> built[w].count,
                                       parts |-> built[w].combined.parts]]] :
                   built \in
                     {[w \in 1..Len(widths) |->
                         Only({[width |-> widths[w],
                                count |-> SumSeq([j \in 1..Len(wparts) |->
                                                   wparts[j].count]),
                                combined |->
                                    combine_parts(widths[w], wparts)] :
                               wparts \in {WidthParts(ps, widths[w], 1)}})]}})

(***************************************************************************)
(* Input rows: the six columns of a master file line, as csv.reader or     *)
(* line.split(',') hands them to parse_row.  Locations are written out     *)
(* from the location grammar: room-parts joined by blanks, each an         *)
(* optional room prefix followed by cab tokens joined by '&', each cab     *)
(* token with or without a (n) quantity.                                   *)
(***************************************************************************)
RoomPrefixes == {<<>>, <<"R", "1", ":">>, <<"R", "2", ":">>}

CabTokens == {<<"1">>, <<"3", "(", "2", ")">>}

SeqsUpTo(S, n) == UNION {[1..k -> S] : k \in 1..n}

RoomPartStrs ==
    {pre \o Join(cabs, <<"&">>) :
        pre \in RoomPrefixes, cabs \in SeqsUpTo(CabTokens, MaxCabs)}

Locations ==
    {Join(rooms, <<" ">>) : rooms \in SeqsUpTo(RoomPartStrs, MaxRooms)}
    \cup {<<>>}

CountStrs == {<<"1">>, <<"5">>}

WidthStrs == {<<"2">>}

LengthStrs == {<<"4", "2">>}

TypeStrs == {<<"B", "R">>}

ExtraStrs == {<<"F", "r", "a", "m", "e">>}

Rows ==
    [count : CountStrs, width : WidthStrs, length : LengthStrs,
     type : TypeStrs, no : Locations, extra_data : ExtraStrs]

\* The value of a variable that holds no object yet.
None == <<>>

(***************************************************************************)
(* One part: construction and split_parts().                               *)
(***************************************************************************)
InitPart ==
    /\ pc = "row"
    /\ row \in Rows
    /\ part = None
    /\ cabparts = None
    /\ mozfiles = None
    /\ parts = <<>>
    /\ inputs = <<>>
    /\ calls = 0
    /\ err = "none"
    /\ master = None
    /\ lines = <<>>
    /\ nosplit = FALSE
    /\ otherpart = None
    /\ similar = None
    /\ mastertree = None
    /\ merged = None
    /\ outlines = None
    /\ reparsed = None
    /\ lockfile = None
    /\ procs = None
    /\ fsdirs = None
    /\ fsfiles = None
    /\ finished = None
    /\ archfile = None
    /\ disk = None
    /\ configs = None
    /\ increments = None

\* parse_row up to the construction of the part: the count column goes
\* through int(), then MozaikMasterPart(partinfo).
Construct ==
    /\ pc = "row"
    /\ IsIntStr(row.count)
    /\ part' = MozaikMasterPart([row EXCEPT !.count = StrToInt(row.count)])
    /\ pc' = "constructed"
    /\ UNCHANGED <<row, cabparts, mozfiles, parts, inputs, calls, err>>
    /\ UNCHANGED <<masterVars, pairVars>>
    /\ UNCHANGED treeVars
    /\ UNCHANGED lockVars
    /\ UNCHANGED archVars
    /\ UNCHANGED cfgVars

\* part.split_parts()
Split ==
    /\ pc = "constructed"
    /\ \E r \in {split_parts(part)} :
          /\ part' = r.self
          /\ cabparts' = r.parts
    /\ pc' = "split"
    /\ UNCHANGED <<row, mozfiles, parts, inputs, calls, err>>
    /\ UNCHANGED <<masterVars, pairVars>>
    /\ UNCHANGED treeVars
    /\ UNCHANGED lockVars
    /\ UNCHANGED archVars
    /\ UNCHANGED cfgVars

\* MozaikMasterFile(parts=part.split_parts()).into_width_files(): what
\* from_line(line, split_parts=True).into_width_files() goes on to do.
IntoWidthFiles ==
    /\ pc = "split"
    /\ \E r \in {into_width_files(cabparts)} :
          /\ mozfiles' = r.files
          /\ err' = r.err
          /\ pc' = IF r.err = "none" THEN "files" ELSE "raised"
    /\ UNCHANGED <<row, part, cabparts, parts, inputs, calls>>
    /\ UNCHANGED <<masterVars, pairVars>>
    /\ UNCHANGED treeVars
    /\ UNCHANGED lockVars
    /\ UNCHANGED archVars
    /\ UNCHANGED cfgVars

NextPart == Construct \/ Split \/ IntoWidthFiles

SpecPart == InitPart /\ [][NextPart]_vars

(***************************************************************************)
(* One width file: records are appended, then combine_parts() is called.   *)
(***************************************************************************)
\* The width of the file under test.
FileWidth == <<"2">>

FileLocations ==
    {<<"R", "1", ":", "1">>,
     <<"R", "1", ":", "1", "(", "2", ")">>,
     <<"R", "2", ":", "1">>,
     <<"R", "1", ":", "1", "(", "1", "0", "0", "0", ")">>,
     <<"R", "1", ":", "2", "&", "1">>,
     <<"1">>}

FileCounts == {0, 1, 1000}

FileLengths == {<<"4", "2">>, <<"4", "3">>}

FileRows ==
    [count : FileCounts, length : FileLengths, type : TypeStrs,
     no : FileLocations, extra_data : ExtraStrs]

InitFile ==
    /\ pc = "appending"
    /\ row = None
    /\ part = None
    /\ cabparts = None
    /\ mozfiles = None
    /\ parts = <<>>
    /\ inputs = <<>>
    /\ calls = 0
    /\ err = "none"
    /\ master = None
    /\ lines = <<>>
    /\ nosplit = FALSE
    /\ otherpart = None
    /\ similar = None
    /\ mastertree = None
    /\ merged = None
    /\ outlines = None
    /\ reparsed = None
    /\ lockfile = None
    /\ procs = None
    /\ fsdirs = None
    /\ fsfiles = None
    /\ finished = None
    /\ archfile = None
    /\ disk = None
    /\ configs = None
    /\ increments = None

\* filedata[width].parts.append(MozaikPart({...})) of into_width_files.
AppendPart ==
    /\ pc = "appending"
    /\ Len(parts) < MaxParts
    /\ \E data \in FileRows : parts' = Append(parts, MozaikMasterPart(data))
    /\ UNCHANGED <<pc, row, part, cabparts, mozfiles, inputs, calls, err>>
    /\ UNCHANGED <<masterVars, pairVars>>
    /\ UNCHANGED treeVars
    /\ UNCHANGED lockVars
    /\ UNCHANGED archVars
    /\ UNCHANGED cfgVars

\* mozfile.combine_parts(); inputs keeps the parts the first call was
\* made on.
Combine ==
    /\ pc \in {"appending", "combined"}
    /\ calls < MaxCombines
    /\ \E r \in {combine_parts(FileWidth, parts)} :
          /\ parts' = r.parts
          /\ err' = r.err
          /\ pc' = IF r.err = "none" THEN "combined" ELSE "raised"
    /\ calls' = calls + 1
    /\ inputs' = IF calls = 0 THEN parts ELSE inputs
    /\ UNCHANGED <<row, part, cabparts, mozfiles>>
    /\ UNCHANGED <<masterVars, pairVars>>
    /\ UNCHANGED treeVars
    /\ UNCHANGED lockVars
    /\ UNCHANGED archVars
    /\ UNCHANGED cfgVars

NextFile == AppendPart \/ Combine

SpecFile == InitFile /\ [][NextFile]_vars

(***************************************************************************)
(* Properties of one part (SpecPart).                                      *)
(***************************************************************************)
\* A location is multi: it contains '&', or a blank together with at
\* least two room-marker letters.
IsMultiLocation(no) ==
    HasChar(no, "&") \/ (HasChar(no, " ") /\ CountLower(no, "r") >= 2)

\* The sub-tokens of a location: split on blanks, then on '&'.
SubTokens(no) ==
    LET rooms == SplitOn(no, " ")
    IN  Flatten([i \in 1..Len(rooms) |-> SplitOn(rooms[i], "&")])

Counts(ps) == [i \in 1..Len(ps) |-> ps[i].count]

\* C1: the counts of the records returned by split() sum to the count the
\* record has after construction, for every location of the grammar.
C1_SplitPreservesCount ==
    [][(pc = "constructed" /\ pc' = "split")
        => SumSeq(Counts(cabparts')) = part.count]_vars

RoomOf(roompart) ==
    IF HasChar(roompart, ":") THEN Partition(roompart, ":")[1]
    ELSE <<"R", "1">>

CabsOf(roompart) ==
    IF HasChar(roompart, ":") THEN Partition(roompart, ":")[3] ELSE roompart

\* One record per (room-part, cab token) pair, left to right.
PerCabRecords(p) ==
    LET rooms == SplitOn(p.no, " ")
    IN  Flatten([i \in 1..Len(rooms) |->
            LET cabs == SplitOn(CabsOf(rooms[i]), "&")
            IN  [j \in 1..Len(cabs) |->
                    [p EXCEPT !.no = RoomOf(rooms[i]) \o <<":">> \o cabs[j],
                              !.count = get_cab_count(cabs[j])]]])

\* C8: split() of a multi-location record yields one record per
\* (room-part, cab token) pair in the order of the location string, with
\* location '<room>:<cab token>', the count of that cab token, and the
\* other fields copied.
C8_SplitPerCab ==
    [][(pc = "constructed" /\ pc' = "split" /\ IsMultiLocation(part.no))
        => cabparts' = PerCabRecords(part)]_vars

\* A location without any room prefix: one cab, or cabs joined by '&'.
NoRoomPrefix(no) == Len(no) > 0 /\ ~HasChar(no, ":") /\ ~HasChar(no, " ")

AddressedR1(p) == Len(p.no) > 3 /\ SubSeq(p.no, 1, 3) = R1Prefix

\* C9: a record whose location has no room prefix is addressed as
\* 'R1:<cab>' after split() and in the combined width file.
C9_DefaultRoom ==
    NoRoomPrefix(row.no) =>
        /\ pc = "split" =>
              \A i \in 1..Len(cabparts) : AddressedR1(cabparts[i])
        /\ pc \in {"files", "raised"} =>
              /\ err = "none"
              /\ \A w \in 1..Len(mozfiles) :
                    \A i \in 1..Len(mozfiles[w].parts) :
                        AddressedR1(mozfiles[w].parts[i])

\* C10: for a location that is not multi, construction leaves the supplied
\* count as it is, and split() returns the record alone and unchanged.
C10_SimpleRowsUntouched ==
    [][/\ (pc = "row" /\ pc' = "constructed" /\ ~IsMultiLocation(row.no))
            => part'.count = StrToInt(row.count)
       /\ (pc = "constructed" /\ pc' = "split" /\ ~IsMultiLocation(part.no))
            => (cabparts' = <<part>> /\ part' = part)]_vars

\* A record with a blank in its location that is not multi, with a count
\* above 1, has gone through construction and split().
C10_Witness ==
    /\ pc = "split"
    /\ ~IsMultiLocation(row.no)
    /\ HasChar(row.no, " ")
    /\ StrToInt(row.count) > 1
    /\ cabparts = <<part>>
    /\ part.count = StrToInt(row.count)

(***************************************************************************)
(* Properties of combine_parts() on one width file (SpecFile).             *)
(***************************************************************************)
\* The records of a list as split_parts() presents them to the tree.
Atoms(ps) == Flatten([i \in 1..Len(ps) |-> split_parts(ps[i]).parts])

\* The key of a record: room, cab without quantity, length, note, type.
KeyOf(p) ==
    <<RoomOf(p.no), trim_cab_count(CabsOf(p.no)), p.length, p.extra_data,
      p.type>>

KeysOf(ps) == {KeyOf(ps[i]) : i \in 1..Len(ps)}

\* The sum of the counts of the records with a key.
RECURSIVE KeyCount(_, _)
KeyCount(ps, key) ==
    IF Len(ps) = 0 THEN 0
    ELSE (IF KeyOf(ps[1]) = key THEN ps[1].count ELSE 0)
         + KeyCount(Tail(ps), key)

\* The one record a key is combined into.
KeyRecord(ps, key) ==
    LET sum == KeyCount(ps, key)
        plain == key[1] \o <<":">> \o key[2]
    IN  [count |-> sum,
         no |-> IF sum > 1
                THEN plain \o <<"(">> \o IntToStr(sum) \o <<")">>
                ELSE plain,
         length |-> key[3], extra_data |-> key[4], type |-> key[5]]

\* C3: combine() yields exactly one record for each distinct key of the
\* input records, with the summed count and the location '<room>:<cab>'
\* or '<room>:<cab>(<sum>)'.
C3_CombineCanonical ==
    calls = 1 =>
        /\ err = "none"
        /\ Len(parts) = Cardinality(KeysOf(Atoms(inputs)))
        /\ {parts[i] : i \in 1..Len(parts)}
             = {KeyRecord(Atoms(inputs), key) : key \in KeysOf(Atoms(inputs))}

\* Two records are similar: same length, type and note, and the same
\* location once the quantities are stripped.
Similar(a, b) ==
    /\ a.length = b.length
    /\ a.type = b.type
    /\ a.extra_data = b.extra_data
    /\ trim_cab_count(a.no) = trim_cab_count(b.no)

\* C4: after combine() no two records of parts are similar.
C4_NoSimilarAfterCombine ==
    pc = "combined" =>
        \A i, j \in 1..Len(parts) : i # j => ~Similar(parts[i], parts[j])

Permuted(ps, f) == [i \in 1..Len(ps) |-> ps[f[i]]]

Occurrences(ps, x) == Cardinality({i \in 1..Len(ps) : ps[i] = x})

SameBag(ps, qs) ==
    /\ Len(ps) = Len(qs)
    /\ \A i \in 1..Len(ps) : Occurrences(ps, ps[i]) = Occurrences(qs, ps[i])

\* C5: for every permutation of the appended records combine() ends the
\* same way and yields the same multiset of records.
C5_CombineOrderIndependent ==
    calls = 1 =>
        \A f \in Permutations(1..Len(inputs)) :
            LET r == combine_parts(FileWidth, Permuted(inputs, f))
            IN  /\ r.err = err
                /\ err = "none" => SameBag(r.parts, parts)

\* Two records with different keys were combined, and appending them the
\* other way round gives the same records in another order.
C5_Witness ==
    /\ calls = 1
    /\ err = "none"
    /\ Len(parts) >= 2
    /\ \E f \in Permutations(1..Len(inputs)) :
          combine_parts(FileWidth, Permuted(inputs, f)).parts # parts

\* C6: the sequence of records combine() yields is the same for every
\* order in which the input records were appended.
C6_CombineOrderIdentical ==
    (calls = 1 /\ err = "none") =>
        \A f \in Permutations(1..Len(inputs)) :
            combine_parts(FileWidth, Permuted(inputs, f)).parts = parts

\* C7: a second combine() leaves parts as the first call left them.
C7_CombineIdempotent ==
    [][(calls = 1 /\ pc = "combined" /\ calls' = 2)
        => (err' = "none" /\ parts' = parts)]_vars

(***************************************************************************)
(* MozaikMasterFile: rows are parsed into parts, with or without           *)
(* splitting, and the file is then divided into width files.               *)
(***************************************************************************)
\* Lines read into one master file.
MaxLines == 2

\* MozaikMasterFile.header
MasterHeader == <<"count", "width", "length", "type", "no", "extra_data">>

\* MozaikMasterFile.parse_row that leaves out a row it cannot read.
parse_row_skip(csvrow, split) ==
    IF Len(csvrow) # Len(MasterHeader) THEN [err |-> "none", parts |-> <<>>]
    ELSE LET partinfo == [k \in {MasterHeader[i] : i \in 1..Len(MasterHeader)}
                            |-> csvrow[CHOOSE i \in 1..Len(MasterHeader) :
                                         MasterHeader[i] = k]]
         IN  IF ~IsIntStr(Strip(partinfo.count))
             THEN [err |-> "none", parts |-> <<>>]
             ELSE Only({[err |-> "none",
                         parts |-> IF split THEN split_parts(p).parts
                                   ELSE <<p>>] :
                        p \in {MozaikMasterPart(
                                 [partinfo EXCEPT
                                    !.count = StrToInt(Strip(partinfo.count))])}})

\* MozaikMasterFile.parse_row: the parts of one row, or the ValueError of
\* a row without six columns or without an integer in the count column.
parse_row(csvrow, split) ==
    IF Len(csvrow) # Len(MasterHeader)
    THEN [err |-> "ValueError", parts |-> <<>>]
    ELSE LET partinfo == [k \in {MasterHeader[i] : i \in 1..Len(MasterHeader)}
                            |-> csvrow[CHOOSE i \in 1..Len(MasterHeader) :
                                         MasterHeader[i] = k]]
         IN  IF ~IsIntStr(Strip(partinfo.count))
             THEN [err |-> "ValueError", parts |-> <<>>]
             ELSE Only({[err |-> "none",
                         parts |-> IF split THEN split_parts(p).parts
                                   ELSE <<p>>] :
                        p \in {MozaikMasterPart(
                                 [partinfo EXCEPT
                                    !.count = StrToInt(Strip(partinfo.count))])}})

\* MozaikMasterFile.__init__(parts=ps)
MozaikMasterFile(ps) ==
    [parts |-> ps, count |-> SumSeq([i \in 1..Len(ps) |-> ps[i].count])]

\* The loop body of parse with the count column of the row added to
\* self.count.
parse_rawcount(self, csvrow, split) ==
    Only({IF r.err # "none" THEN [err |-> r.err, self |-> self]
          ELSE [err |-> "none",
                self |-> [parts |-> self.parts \o r.parts,
                          count |-> self.count
                                    + StrToInt(Strip(csvrow[1]))]] :
          r \in {parse_row(csvrow, split)}})

\* The loop body of MozaikMasterFile.parse for one row: the counts of the
\* row's parts are added to self.count and the parts to self.parts.
parse(self, csvrow, split) ==
    Only({IF r.err # "none" THEN [err |-> r.err, self |-> self]
          ELSE [err |-> "none",
                self |-> [parts |-> self.parts \o r.parts,
                          count |-> self.count
                                    + SumSeq([i \in 1..Len(r.parts) |->
                                                r.parts[i].count])]] :
          r \in {parse_row(csvrow, split)}})

\* Input lines, as csv.reader or line.split(',') hands them over.
MasterWidths == {<<"2">>, <<"1", "0">>}

MasterLocations ==
    {<<"R", "1", ":", "1">>,
     <<"R", "1", ":", "1", "&", "3", "(", "2", ")">>,
     <<"1", "&", "1", " ", "1">>,
     <<"R", "1", ":", "1", " ", "R", "2", ":", "3", "(", "2", ")">>,
     <<>>}

GoodRows ==
    {<<c, w, <<"4", "2">>, <<"B", "R">>, no, <<"F", "r", "a", "m", "e">>>> :
        c \in CountStrs, w \in MasterWidths, no \in MasterLocations}

\* A row of five columns, and a row whose count is no integer.
BadRows ==
    {<<<<"1">>, <<"2">>, <<"4", "2">>, <<"B", "R">>,
       <<"R", "1", ":", "1">>>>,
     <<<<"x">>, <<"2">>, <<"4", "2">>, <<"B", "R">>,
       <<"R", "1", ":", "1">>, <<"F", "r", "a", "m", "e">>>>}

RawRows == GoodRows \cup BadRows

InitMaster ==
    /\ pc = "parsing"
    /\ nosplit \in BOOLEAN
    /\ master = MozaikMasterFile(<<>>)
    /\ lines = <<>>
    /\ row = None
    /\ part = None
    /\ cabparts = None
    /\ mozfiles = None
    /\ parts = <<>>
    /\ inputs = <<>>
    /\ calls = 0
    /\ err = "none"
    /\ otherpart = None
    /\ similar = None
    /\ mastertree = None
    /\ merged = None
    /\ outlines = None
    /\ reparsed = None
    /\ lockfile = None
    /\ procs = None
    /\ fsdirs = None
    /\ fsfiles = None
    /\ finished = None
    /\ archfile = None
    /\ disk = None
    /\ configs = None
    /\ increments = None

\* One turn of the loop of parse / from_lines.  An exception leaves the
\* caller of from_file / from_lines without a master file.
ParseRow ==
    /\ pc = "parsing"
    /\ Len(lines) < MaxLines
    /\ \E csvrow \in RawRows :
          /\ lines' = Append(lines, csvrow)
          /\ \E r \in {parse(master, csvrow, ~nosplit)} :
                /\ err' = r.err
                /\ pc' = IF r.err = "none" THEN "parsing" ELSE "parse_raised"
                /\ master' = IF r.err = "none" THEN r.self ELSE None
    /\ UNCHANGED <<row, part, cabparts, mozfiles, parts, inputs, calls,
                   nosplit, pairVars>>
    /\ UNCHANGED treeVars
    /\ UNCHANGED lockVars
    /\ UNCHANGED archVars
    /\ UNCHANGED cfgVars

\* from_file returns the master file that parse has filled.
FromFile ==
    /\ pc = "parsing"
    /\ pc' = "built"
    /\ UNCHANGED <<row, part, cabparts, mozfiles, parts, inputs, calls, err,
                   masterVars, pairVars>>
    /\ UNCHANGED treeVars
    /\ UNCHANGED lockVars
    /\ UNCHANGED archVars
    /\ UNCHANGED cfgVars

\* from_line / from_lines return cls(parts=parts).
FromLines ==
    /\ pc = "parsing"
    /\ master' = MozaikMasterFile(master.parts)
    /\ pc' = "built"
    /\ UNCHANGED <<row, part, cabparts, mozfiles, parts, inputs, calls, err,
                   lines, nosplit, pairVars>>
    /\ UNCHANGED treeVars
    /\ UNCHANGED lockVars
    /\ UNCHANGED archVars
    /\ UNCHANGED cfgVars

\* master.into_width_files(), as load_moz_file calls it.
MasterIntoWidthFiles ==
    /\ pc = "built"
    /\ \E r \in {into_width_files(master.parts)} :
          /\ mozfiles' = r.files
          /\ err' = r.err
          /\ pc' = IF r.err = "none" THEN "files" ELSE "raised"
    /\ UNCHANGED <<row, part, cabparts, parts, inputs, calls, masterVars,
                   pairVars>>
    /\ UNCHANGED treeVars
    /\ UNCHANGED lockVars
    /\ UNCHANGED archVars
    /\ UNCHANGED cfgVars

NextMaster == ParseRow \/ FromFile \/ FromLines \/ MasterIntoWidthFiles

SpecMaster == InitMaster /\ [][NextMaster]_vars

(***************************************************************************)
(* Properties of a master file (SpecMaster).                               *)
(***************************************************************************)
\* The location column of a line, as the constructor keeps it.
LineLocation(csvrow) == Strip(csvrow[5])

\* C11: with the nosplit option a multi-location row stays one record, in
\* the parts of the master file and in the width files made from it.
C11_NoSplitKeepsOneRecord ==
    nosplit =>
        /\ pc \in {"built", "files", "raised"} =>
              /\ Len(master.parts) = Len(lines)
              /\ \A i \in 1..Len(lines) :
                    master.parts[i].no = LineLocation(lines[i])
        /\ pc = "files" =>
              \A i \in 1..Len(master.parts) :
                  IsMultiLocation(master.parts[i].no) =>
                      \E w \in 1..Len(mozfiles) :
                          /\ mozfiles[w].width = master.parts[i].width
                          /\ \E j \in 1..Len(mozfiles[w].parts) :
                                trim_cab_count(mozfiles[w].parts[j].no)
                                  = trim_cab_count(master.parts[i].no)

\* C12: into_width_files() returns one width file per distinct width of
\* the master's parts, in ascending order of the width as a string, each
\* built from exactly the parts of that width; and none for no parts.
C12_OneFilePerWidth ==
    pc = "files" =>
        /\ {mozfiles[w].width : w \in 1..Len(mozfiles)}
             = {master.parts[i].width : i \in 1..Len(master.parts)}
        /\ \A v, w \in 1..Len(mozfiles) :
              v < w => StrLess(mozfiles[v].width, mozfiles[w].width)
        /\ \A w \in 1..Len(mozfiles) :
              LET mine == WidthParts(master.parts, mozfiles[w].width, 1)
              IN  /\ mozfiles[w].count = SumSeq(Counts(mine))
                  /\ mozfiles[w].parts
                       = combine_parts(mozfiles[w].width, mine).parts
        /\ master.parts = <<>> => mozfiles = <<>>

\* Width files for the widths '10' and '2' were returned, in that order,
\* from a master whose first part has width '2'.
C12_Witness ==
    /\ pc = "files"
    /\ Len(mozfiles) = 2
    /\ mozfiles[1].width = <<"1", "0">>
    /\ mozfiles[2].width = <<"2">>
    /\ master.parts[1].width = <<"2">>

\* The sum of the count columns of the lines read.
RawCount(ls) == SumSeq([i \in 1..Len(ls) |-> StrToInt(Strip(ls[i][1]))])

\* C13: the count of the master file is the sum of the count columns of
\* the input rows as supplied, before correction and splitting.
C13_CountFromRawRows ==
    pc = "built" => master.count = RawCount(lines)

\* C14: the count of a master file equals the sum of the counts of the
\* records in its parts, however it was built and with or without
\* splitting.
C14_CountIsSumOfParts ==
    pc \in {"parsing", "built", "files", "raised"} =>
        master.count = SumSeq(Counts(master.parts))

\* A master file was built with splitting from rows whose parts carry
\* other counts than the count columns did.
C14_Witness ==
    /\ pc = "built"
    /\ ~nosplit
    /\ Len(master.parts) > Len(lines)
    /\ master.count # RawCount(lines)
    /\ master.count = SumSeq(Counts(master.parts))

\* A row parse_row does not accept: not six columns, or no integer count.
BadRow(csvrow) == Len(csvrow) # 6 \/ ~IsIntStr(Strip(csvrow[1]))

\* C15: a row without six columns or without an integer count raises
\* ValueError to the caller, at whatever position it is read, and no
\* master file comes back: nothing is done after the error.
C15_BadRowAborts ==
    [][/\ (pc = "parsing" /\ lines' # lines) =>
             IF BadRow(lines'[Len(lines')])
             THEN pc' = "parse_raised" /\ err' = "ValueError"
                  /\ master' = None
             ELSE pc' = "parsing" /\ err' = "none"
       /\ pc # "parse_raised"]_vars

\* A bad row was read after a good one and ended the parse.
C15_Witness ==
    /\ pc = "parse_raised"
    /\ err = "ValueError"
    /\ master = None
    /\ Len(lines) = 2
    /\ ~BadRow(lines[1])
    /\ BadRow(lines[2])

\* C17: once every row has been accepted by the parse, into_width_files()
\* completes without raising, also for rows with an empty location.
C17_IntoWidthFilesNeverRaises ==
    pc \in {"files", "raised"} => (pc = "files" /\ err = "none")

\* C20: after into_width_files() the count of each width file is the sum
\* of the counts of its combined parts, and the counts of the width files
\* sum to the count of the master file.
C20_CountsConserved ==
    pc = "files" =>
        /\ \A w \in 1..Len(mozfiles) :
              mozfiles[w].count = SumSeq(Counts(mozfiles[w].parts))
        /\ SumSeq([w \in 1..Len(mozfiles) |-> mozfiles[w].count])
             = master.count

(***************************************************************************)
(* Two parts: MozaikMasterPart(data) for each, then similar_part().        *)
(***************************************************************************)
\* Dicts without a cab number: every other field filled, or all empty.
FilledData ==
    [count : {0, 5}, width : {<<"2">>}, length : {<<"4", "2">>, <<"4", "3">>},
     type : {<<"B", "R">>}, extra_data : {<<"F", "r", "a", "m", "e">>}]

EmptyData ==
    [count : {0, 5}, width : {<<>>}, length : {<<>>}, type : {<<>>},
     extra_data : {<<>>}]

RecordLocations ==
    {<<>>, <<" ">>,
     <<"R", "1", ":", "1">>,
     <<"R", "1", ":", "1", "(", "2", ")">>,
     <<"R", "1", ":", "1", "(", "1", "0", "0", "0", ")">>}

\* The dict d with the cab number no.
WithLocation(d, no) ==
    [k \in (DOMAIN d) \cup {"no"} |-> IF k = "no" THEN no ELSE d[k]]

RecordData ==
    (FilledData \cup EmptyData)
    \cup {WithLocation(d, no) :
            d \in FilledData \cup EmptyData, no \in RecordLocations}

InitRecord ==
    /\ pc = "data"
    /\ row \in RecordData
    /\ part = None
    /\ otherpart = None
    /\ similar = None
    /\ cabparts = None
    /\ mozfiles = None
    /\ parts = <<>>
    /\ inputs = <<>>
    /\ calls = 0
    /\ err = "none"
    /\ master = None
    /\ lines = <<>>
    /\ nosplit = FALSE
    /\ mastertree = None
    /\ merged = None
    /\ outlines = None
    /\ reparsed = None
    /\ lockfile = None
    /\ procs = None
    /\ fsdirs = None
    /\ fsfiles = None
    /\ finished = None
    /\ archfile = None
    /\ disk = None
    /\ configs = None
    /\ increments = None

\* self = MozaikMasterPart(data)
ConstructPart ==
    /\ pc = "data"
    /\ part' = MozaikMasterPart(row)
    /\ pc' = "self"
    /\ UNCHANGED <<row, cabparts, mozfiles, parts, inputs, calls, err,
                   masterVars, pairVars>>
    /\ UNCHANGED treeVars
    /\ UNCHANGED lockVars
    /\ UNCHANGED archVars
    /\ UNCHANGED cfgVars

\* other = MozaikMasterPart(data)
ConstructOther ==
    /\ pc = "self"
    /\ \E data \in RecordData : otherpart' = MozaikMasterPart(data)
    /\ pc' = "pair"
    /\ UNCHANGED <<row, part, cabparts, mozfiles, parts, inputs, calls, err,
                   masterVars, similar>>
    /\ UNCHANGED treeVars
    /\ UNCHANGED lockVars
    /\ UNCHANGED archVars
    /\ UNCHANGED cfgVars

\* self.similar_part(self) or self.similar_part(other)
SimilarPart ==
    /\ pc = "pair"
    /\ \E same \in BOOLEAN :
          similar' = [same |-> same,
                      result |-> similar_part(
                                    part, IF same THEN part ELSE otherpart,
                                    same)]
    /\ pc' = "compared"
    /\ UNCHANGED <<row, part, cabparts, mozfiles, parts, inputs, calls, err,
                   masterVars, otherpart>>
    /\ UNCHANGED treeVars
    /\ UNCHANGED lockVars
    /\ UNCHANGED archVars
    /\ UNCHANGED cfgVars

NextRecord == ConstructPart \/ ConstructOther \/ SimilarPart

SpecRecord == InitRecord /\ [][NextRecord]_vars

(***************************************************************************)
(* Properties of parts and of their comparison (SpecRecord, SpecPart).     *)
(***************************************************************************)
\* The dict has no cab number, or one that is empty once stripped.
NoLocation(data) == "no" \notin DOMAIN data \/ Strip(data.no) = <<>>

\* C16: constructing a part with a missing or empty location does not
\* raise; the location becomes '', the part is not multi and its count is
\* left as supplied.
C16_EmptyLocationAccepted ==
    (pc = "self" /\ NoLocation(row)) =>
        /\ err = "none"
        /\ part.no = <<>>
        /\ ~has_multi(part)
        /\ part.count = row.count

\* A part was constructed from a dict without a cab number and with a
\* count above 1.
C16_Witness ==
    /\ pc = "self"
    /\ "no" \notin DOMAIN row
    /\ row.count > 1
    /\ part.no = <<>>
    /\ part.count = row.count

\* The index after a '(digits)' group that starts at position i of s, for
\* any number of digits; 0 when none starts there.
QtyEnd(s, i) ==
    IF s[i] = "("
       /\ \E e \in (i + 2)..Len(s) :
             s[e] = ")" /\ \A j \in (i + 1)..(e - 1) : IsDigit(s[j])
    THEN CHOOSE e \in (i + 2)..Len(s) :
             s[e] = ")" /\ \A j \in (i + 1)..(e - 1) : IsDigit(s[j])
    ELSE 0

\* s with every '(digits)' group removed, from position i on.
RECURSIVE StripQuantityFrom(_, _)
StripQuantityFrom(s, i) ==
    IF i > Len(s) THEN <<>>
    ELSE IF QtyEnd(s, i) > 0 THEN StripQuantityFrom(s, QtyEnd(s, i) + 1)
    ELSE <<s[i]>> \o StripQuantityFrom(s, i + 1)

\* A part is falsy: its count is 0 and every other field is ''.
Falsy(p) == \A k \in DOMAIN p : IF k = "count" THEN p[k] = 0 ELSE p[k] = <<>>

\* C18: similar_part(other) is false for the same object and for a falsy
\* other; otherwise it is true exactly when every field but count is
\* equal, the locations being compared with every '(digits)' group
\* removed.
C18_SimilarPart ==
    pc = "compared" =>
        similar.result =
            IF similar.same THEN FALSE
            ELSE IF Falsy(otherpart) THEN FALSE
            ELSE /\ \A k \in (DOMAIN part) \ {"count", "no"} :
                       part[k] = otherpart[k]
                 /\ StripQuantityFrom(part.no, 1)
                      = StripQuantityFrom(otherpart.no, 1)

\* C19: every record split() returns addresses one room and one cab: its
\* location holds neither '&' nor a blank.
C19_SplitRecordsAtomic ==
    pc = "split" =>
        \A i \in 1..Len(cabparts) :
            ~HasChar(cabparts[i].no, "&") /\ ~HasChar(cabparts[i].no, " ")

\* The part as parse_row constructed it, before split_parts() was called.
PartBefore == MozaikMasterPart([row EXCEPT !.count = StrToInt(row.count)])

\* C27: no room part that split_rooms() hands to split_room_cabs() is
\* itself multi-room, so no room part is put aside and split again.
C27_NoDeferredResplit ==
    pc = "split" =>
        \A i \in 1..Len(split_rooms(PartBefore)) :
            ~RoomCabs(split_rooms(PartBefore)[i]).multiroom

\* A multi-room part was split into more than one record.
C27_Witness ==
    /\ pc = "split"
    /\ has_multi_room(PartBefore)
    /\ Len(split_rooms(PartBefore)) > 1
    /\ Len(cabparts) > 1

\* C28: split_parts() leaves the location and the count of the part it is
\* called on as they were.
C28_SplitKeepsReceiver ==
    pc = "split" =>
        /\ part.no = PartBefore.no
        /\ part.count = PartBefore.count

\* C29: for two distinct parts, a.similar_part(b) and b.similar_part(a)
\* agree, a falsy part included.
C29_SimilarSymmetric ==
    (pc = "compared" /\ ~similar.same) =>
        similar.result = similar_part(otherpart, part, FALSE)

\* A location of one room and one cab, without a quantity: '<room>:<cab>'.
PlainLocation(no) ==
    /\ HasChar(no, ":")
    /\ ~HasChar(no, "&")
    /\ ~HasChar(no, " ")
    /\ ~HasChar(no, "(")

\* C30: combine_parts() on records of count 0 with plain locations
\* completes without raising, and every record it leaves has count 0 and
\* a location without quantity, one record for each key.
C30_CombineZeroCount ==
    (/\ pc \in {"combined", "raised"}
     /\ calls = 1
     /\ Len(inputs) > 0
     /\ \A i \in 1..Len(inputs) :
           inputs[i].count = 0 /\ PlainLocation(inputs[i].no)) =>
        /\ err = "none"
        /\ Len(parts) = Cardinality({KeyOf(inputs[i]) : i \in 1..Len(inputs)})
        /\ \A i \in 1..Len(parts) :
              /\ parts[i].count = 0
              /\ PlainLocation(parts[i].no)
              /\ \E j \in 1..Len(inputs) : parts[i].no = inputs[j].no

(***************************************************************************)
(* view_lines_file: a master file is parsed with splitting, its tree is    *)
(* built one part at a time, the tree is written out as lines, and the     *)
(* lines are parsed into a tree again.                                     *)
(***************************************************************************)
\* The loop of MozaikMasterFile.parse over the rows from the i-th on.
RECURSIVE ParseRows(_, _, _, _)
ParseRows(self, rows, i, split) ==
    IF i > Len(rows) THEN [err |-> "none", self |-> self]
    ELSE Only({IF r.err # "none" THEN r
               ELSE ParseRows(r.self, rows, i + 1, split) :
               r \in {parse(self, rows[i], split)}})

\* MozaikMasterFile.from_file on a file whose rows csv.reader yields.
from_file(rows, split) == ParseRows(MozaikMasterFile(<<>>), rows, 1, split)

\* MozaikMasterFile.from_lines: every line is cut at its commas.
from_lines(ls, split) ==
    Only({IF r.err # "none" THEN r
          ELSE [err |-> "none", self |-> MozaikMasterFile(r.self.parts)] :
          r \in {ParseRows(MozaikMasterFile(<<>>),
                           [i \in 1..Len(ls) |-> SplitOn(ls[i], ",")],
                           1, split)}})

\* The loop of MozaikMasterFile.tree over the parts from the i-th on.
RECURSIVE MasterTreeLoop(_, _, _)
MasterTreeLoop(t, ps, i) ==
    IF i > Len(ps) THEN [err |-> "none", tree |-> t]
    ELSE Only({IF r.err # "none" THEN [err |-> r.err, tree |-> t]
               ELSE MasterTreeLoop(update(t, r.tree), ps, i + 1) :
               r \in {part_tree(ps[i])}})

\* MozaikMasterFile.tree
MozaikMasterFile_tree(self) ==
    MasterTreeLoop(Tree("room", <<>>), self.parts, 1)

\* MozaikPartTree.to_lines / iter_lines: the columns of every part, joined by commas.
iter_lines(d) ==
    Only({[err |-> r.err,
           lines |-> [i \in 1..Len(r.infos) |->
                        Join(<<r.infos[i].count, r.infos[i].width,
                               r.infos[i].length, r.infos[i].type,
                               r.infos[i].no, r.infos[i].extra_data>>,
                             <<",">>)]] :
          r \in {iter_part_info(d)}})

\* What merge_dicts leaves of its arguments: it copies d1 into d and
\* assigns to d only, so both are as they were.
merge_dicts_args(d1, d2) == [d1 |-> d1, d2 |-> d2]

\* Rows of the file that is viewed.  A count of 1000 gets a quantity of
\* four digits; a quoted column can hold a comma.
TreeRows ==
    {<<c, <<"2">>, <<"4", "2">>, <<"B", "R">>, no, x>> :
        c \in {<<"0">>, <<"1">>, <<"1", "0", "0", "0">>},
        no \in {<<"R", "1", ":", "1">>,
                <<"R", "1", ":", "1", "&", "3", "(", "2", ")">>},
        x \in {<<"F", "r", "a", "m", "e">>, <<"a", ",", "b">>}}

InitLines ==
    /\ pc = "file"
    /\ lines \in UNION {[1..n -> TreeRows] : n \in 0..MaxLines}
    /\ master = None
    /\ nosplit = FALSE
    /\ mastertree = None
    /\ merged = None
    /\ outlines = None
    /\ reparsed = None
    /\ row = None
    /\ part = None
    /\ cabparts = None
    /\ mozfiles = None
    /\ parts = <<>>
    /\ inputs = <<>>
    /\ calls = 0
    /\ err = "none"
    /\ otherpart = None
    /\ similar = None
    /\ lockfile = None
    /\ procs = None
    /\ fsdirs = None
    /\ fsfiles = None
    /\ finished = None
    /\ archfile = None
    /\ disk = None
    /\ configs = None
    /\ increments = None

\* masterfile = MozaikMasterFile.from_file(filepath, split_parts=True),
\* and the empty tree that masterfile.tree() starts from.
ViewParse ==
    /\ pc = "file"
    /\ \E r \in {from_file(lines, TRUE)} :
          /\ err' = r.err
          /\ pc' = IF r.err = "none" THEN "parsed" ELSE "parse_raised"
          /\ master' = IF r.err = "none" THEN r.self ELSE None
    /\ mastertree' = Tree("room", <<>>)
    /\ UNCHANGED <<row, part, cabparts, mozfiles, parts, inputs, calls,
                   lines, nosplit, pairVars, merged, outlines, reparsed>>
    /\ UNCHANGED lockVars
    /\ UNCHANGED archVars
    /\ UNCHANGED cfgVars

\* One turn of the loop of masterfile.tree(): tree.update(part.tree()).
TreeUpdate ==
    /\ pc = "parsed"
    /\ calls < Len(master.parts)
    /\ \E r \in {part_tree(master.parts[calls + 1])} :
          /\ err' = r.err
          /\ pc' = IF r.err = "none" THEN "parsed" ELSE "raised"
          /\ mastertree' = IF r.err = "none" THEN update(mastertree, r.tree)
                           ELSE mastertree
          /\ merged' =
                IF r.err = "none"
                THEN [d1 |-> mastertree.items, d2 |-> r.tree.items,
                      d |-> merge_dicts(mastertree.items, r.tree.items),
                      after |-> merge_dicts_args(mastertree.items,
                                                 r.tree.items)]
                ELSE merged
    /\ calls' = calls + 1
    /\ UNCHANGED <<row, part, cabparts, mozfiles, parts, inputs,
                   masterVars, pairVars, outlines, reparsed>>
    /\ UNCHANGED lockVars
    /\ UNCHANGED archVars
    /\ UNCHANGED cfgVars

\* tree.to_lines(), once masterfile.tree() has returned.
ToLines ==
    /\ pc = "parsed"
    /\ calls = Len(master.parts)
    /\ \E r \in {iter_lines(mastertree)} :
          /\ err' = r.err
          /\ pc' = IF r.err = "none" THEN "lines" ELSE "raised"
          /\ outlines' = IF r.err = "none" THEN r.lines ELSE None
    /\ UNCHANGED <<row, part, cabparts, mozfiles, parts, inputs, calls,
                   masterVars, pairVars, mastertree, merged, reparsed>>
    /\ UNCHANGED lockVars
    /\ UNCHANGED archVars
    /\ UNCHANGED cfgVars

\* MozaikMasterFile.from_lines(lines).tree() on the lines written out.
ParseAgain ==
    /\ pc = "lines"
    /\ \E m \in {from_lines(outlines, TRUE)} :
          IF m.err # "none"
          THEN /\ err' = m.err
               /\ pc' = "reparse_raised"
               /\ reparsed' = None
          ELSE \E r \in {MozaikMasterFile_tree(m.self)} :
                  /\ err' = r.err
                  /\ pc' = IF r.err = "none" THEN "reparsed"
                           ELSE "reparse_raised"
                  /\ reparsed' = IF r.err = "none" THEN r.tree ELSE None
    /\ UNCHANGED <<row, part, cabparts, mozfiles, parts, inputs, calls,
                   masterVars, pairVars, mastertree, merged, outlines>>
    /\ UNCHANGED lockVars
    /\ UNCHANGED archVars
    /\ UNCHANGED cfgVars

NextLines == ViewParse \/ TreeUpdate \/ ToLines \/ ParseAgain

SpecLines == InitLines /\ [][NextLines]_vars

(***************************************************************************)
(* Properties of the tree of a master file (SpecLines).                    *)
(***************************************************************************)
\* The leaves of a dict: pairs of a key path and the count found there.
RECURSIVE Leaves(_)
Leaves(items) ==
    UNION {IF items[i].v.isdict
           THEN {<<<<items[i].k>> \o pl[1], pl[2]>> :
                    pl \in Leaves(items[i].v.items)}
           ELSE {<<<<items[i].k>>, items[i].v.n>>} :
           i \in 1..Len(items)}

Paths(items) == {pl[1] : pl \in Leaves(items)}

\* The count at a key path, 0 for a path the dict does not have.
LeafAt(items, path) ==
    IF path \in Paths(items)
    THEN (CHOOSE pl \in Leaves(items) : pl[1] = path)[2]
    ELSE 0

\* The trees of the parts of the master file.
PartTrees == {part_tree(master.parts[i]).tree.items :
                 i \in 1..Len(master.parts)}

\* C21: the tree merge_dicts(d1, d2) returns has, at every key path, the
\* sum of the leaves of d1 and d2 at that path, a missing path counting
\* as 0; d1 and d2 are left as they were; and the leaf counts do not
\* depend on the order or on the grouping of merges.
C21_MergeSumsLeaves ==
    (pc = "parsed" /\ merged # None) =>
        /\ Paths(merged.d) = Paths(merged.d1) \cup Paths(merged.d2)
        /\ \A path \in Paths(merged.d) :
              LeafAt(merged.d, path)
                = LeafAt(merged.d1, path) + LeafAt(merged.d2, path)
        /\ merged.after.d1 = merged.d1
        /\ merged.after.d2 = merged.d2
        /\ Leaves(merge_dicts(merged.d2, merged.d1)) = Leaves(merged.d)
        /\ \A d3 \in PartTrees :
              Leaves(merge_dicts(merged.d, d3))
                = Leaves(merge_dicts(merged.d1, merge_dicts(merged.d2, d3)))

\* Two trees that share a key path were merged, and each has a path the
\* other lacks.
C21_Witness ==
    /\ pc = "parsed"
    /\ merged # None
    /\ \E path \in Paths(merged.d1) \cap Paths(merged.d2) :
          /\ LeafAt(merged.d1, path) > 0
          /\ LeafAt(merged.d2, path) > 0
          /\ LeafAt(merged.d, path)
               = LeafAt(merged.d1, path) + LeafAt(merged.d2, path)
    /\ Paths(merged.d1) \ Paths(merged.d2) # {}

\* C22: the lines of masterfile.tree().to_lines(), parsed as a new master
\* file, give a tree with the same key paths and the same counts.
C22_LinesRoundTrip ==
    pc \in {"reparsed", "reparse_raised"} =>
        /\ err = "none"
        /\ Leaves(reparsed.items) = Leaves(mastertree.items)

(***************************************************************************)
(* The single-instance lock.  Every process runs entry_point: main() up    *)
(* to lock_acquire(), the rest of main(), then lock_release() in the       *)
(* finally clause.  A step of a process is one operation on the lock       *)
(* file; the file is a path that either names an inode or does not, and    *)
(* a process that has the file open keeps writing to the inode it opened.  *)
(***************************************************************************)
NumProcs == 2

\* The processes; PID of process p is p.
Procs == 1..NumProcs

\* How main() ends: it returns, or raises an exception that entry_point
\* catches, or one that it does not.
MainOutcomes ==
    {"return", "InvalidArg", "FileNotFoundError", "KeyboardInterrupt",
     "BrokenPipeError", "Exception"}

\* No file at LOCKFILE; inodes counts the files created there so far.
NoLockFile(inodes) == [exists |-> FALSE, ino |-> inodes, content |-> 0]

InitLock ==
    /\ pc = "lock"
    /\ lockfile = NoLockFile(0)
    /\ procs = [p \in Procs |->
                  [pc |-> "main", fd |-> 0, acquired |-> FALSE,
                   removed |-> FALSE, outcome |-> "none"]]
    /\ row = None
    /\ part = None
    /\ cabparts = None
    /\ mozfiles = None
    /\ parts = <<>>
    /\ inputs = <<>>
    /\ calls = 0
    /\ err = "none"
    /\ master = None
    /\ lines = <<>>
    /\ nosplit = FALSE
    /\ otherpart = None
    /\ similar = None
    /\ mastertree = None
    /\ merged = None
    /\ outlines = None
    /\ reparsed = None
    /\ fsdirs = None
    /\ fsfiles = None
    /\ finished = None
    /\ archfile = None
    /\ disk = None
    /\ configs = None
    /\ increments = None

\* What no step of a process touches.
LockFrame ==
    UNCHANGED <<pc, row, part, cabparts, mozfiles, parts, inputs, calls, err,
                masterVars, pairVars, treeVars>>

\* main() raises before it reaches lock_acquire(), or docopt() exits.
MainRaisesEarly(p) ==
    /\ procs[p].pc = "main"
    /\ \E ex \in MainOutcomes \ {"return"} :
          procs' = [procs EXCEPT ![p].pc = "finally", ![p].outcome = ex]
    /\ UNCHANGED lockfile
    /\ LockFrame
    /\ UNCHANGED archVars
    /\ UNCHANGED cfgVars

\* lock_acquire: `if os.path.exists(LOCKFILE): raise ValueError(msg)`;
\* main() catches it and returns 3.
AcquireCheck(p) ==
    /\ procs[p].pc = "main"
    /\ procs' = IF lockfile.exists
                THEN [procs EXCEPT ![p].pc = "finally",
                                   ![p].outcome = "return"]
                ELSE [procs EXCEPT ![p].pc = "acquire_open"]
    /\ UNCHANGED lockfile
    /\ LockFrame
    /\ UNCHANGED archVars
    /\ UNCHANGED cfgVars

\* lock_acquire: open(LOCKFILE, 'w') creates the file, or empties the one
\* that is there.
AcquireOpen(p) ==
    /\ procs[p].pc = "acquire_open"
    /\ lockfile' = IF lockfile.exists THEN [lockfile EXCEPT !.content = 0]
                   ELSE [exists |-> TRUE, ino |-> lockfile.ino + 1,
                         content |-> 0]
    /\ procs' = [procs EXCEPT ![p].pc = "acquire_write",
                              ![p].fd = lockfile'.ino]
    /\ LockFrame
    /\ UNCHANGED archVars
    /\ UNCHANGED cfgVars

\* lock_acquire: f.write(str(PID)) and the end of the with block; the
\* text goes to the inode that was opened, and lock_acquire returns.
AcquireWrite(p) ==
    /\ procs[p].pc = "acquire_write"
    /\ lockfile' = IF lockfile.exists /\ lockfile.ino = procs[p].fd
                   THEN [lockfile EXCEPT !.content = p]
                   ELSE lockfile
    /\ procs' = [procs EXCEPT ![p].pc = "running", ![p].acquired = TRUE]
    /\ LockFrame
    /\ UNCHANGED archVars
    /\ UNCHANGED cfgVars

\* The rest of main(), with the lock taken.
MainEnds(p) ==
    /\ procs[p].pc = "running"
    /\ \E out \in MainOutcomes :
          procs' = [procs EXCEPT ![p].pc = "finally", ![p].outcome = out]
    /\ UNCHANGED lockfile
    /\ LockFrame
    /\ UNCHANGED archVars
    /\ UNCHANGED cfgVars

\* lock_release: `if not os.path.exists(LOCKFILE): return True`
ReleaseCheck(p) ==
    /\ procs[p].pc = "finally"
    /\ procs' = IF lockfile.exists
                THEN [procs EXCEPT ![p].pc = "release_read"]
                ELSE [procs EXCEPT ![p].pc = "exited"]
    /\ UNCHANGED lockfile
    /\ LockFrame
    /\ UNCHANGED archVars
    /\ UNCHANGED cfgVars

\* lock_release: `pid = int(f.read())`, then `if pid != PID: return False`.
\* open() raises FileNotFoundError when the file is gone, int('') raises
\* ValueError when it is empty; both leave lock_release.
ReleaseRead(p) ==
    /\ procs[p].pc = "release_read"
    /\ procs' = IF lockfile.exists /\ lockfile.content = p
                THEN [procs EXCEPT ![p].pc = "release_remove"]
                ELSE [procs EXCEPT ![p].pc = "exited"]
    /\ UNCHANGED lockfile
    /\ LockFrame
    /\ UNCHANGED archVars
    /\ UNCHANGED cfgVars

\* lock_release: os.remove(LOCKFILE), whatever the file holds by now;
\* FileNotFoundError when it is gone.
ReleaseRemove(p) ==
    /\ procs[p].pc = "release_remove"
    /\ lockfile' = IF lockfile.exists THEN NoLockFile(lockfile.ino)
                   ELSE lockfile
    /\ procs' = [procs EXCEPT ![p].pc = "exited",
                              ![p].removed = lockfile.exists]
    /\ LockFrame
    /\ UNCHANGED archVars
    /\ UNCHANGED cfgVars

NextLock ==
    \E p \in Procs :
        \/ MainRaisesEarly(p)
        \/ AcquireCheck(p)
        \/ AcquireOpen(p)
        \/ AcquireWrite(p)
        \/ MainEnds(p)
        \/ ReleaseCheck(p)
        \/ ReleaseRead(p)
        \/ ReleaseRemove(p)

SpecLock == InitLock /\ [][NextLock]_vars

(***************************************************************************)
(* Properties of the lock (SpecLock).                                      *)
(***************************************************************************)
\* The processes that lock_acquire() has let through and that have not
\* yet reached the finally clause.
Holders == {p \in Procs : procs[p].pc = "running"}

\* C23: at any time at most one process goes on as the holder of the
\* lock.
C23_SingleHolder == Cardinality(Holders) <= 1

\* C24: a process that has exited has removed the lock file if it had
\* acquired the lock, however main() ended, and has not removed it if it
\* had not.
C24_LockReleased ==
    \A p \in Procs :
        procs[p].pc = "exited" =>
            (procs[p].acquired <=> procs[p].removed)

(***************************************************************************)
(* Archiving and unarchiving a master file.  A path is a sequence of       *)
(* components, a component a string; the disk is the set of directories    *)
(* and the set of files that exist.                                        *)
(***************************************************************************)
archive_split_char == <<"_", "_">>

DatExt == <<".", "d", "a", "t">>

\* s.endswith(suffix)
EndsWith(s, suffix) ==
    /\ Len(suffix) <= Len(s)
    /\ SubSeq(s, Len(s) - Len(suffix) + 1, Len(s)) = suffix

\* The positions of s where sep starts.
Occurs(s, sep) ==
    {i \in 1..(Len(s) - Len(sep) + 1) : SubSeq(s, i, i + Len(sep) - 1) = sep}

\* sep in s
Contains(s, sep) == Occurs(s, sep) # {}

\* s.rsplit(sep, 1): the pieces before and after the last sep, or s alone.
RSplit(s, sep) ==
    IF ~Contains(s, sep) THEN <<s>>
    ELSE LET i == CHOOSE j \in Occurs(s, sep) :
                     \A k \in Occurs(s, sep) : k <= j
         IN  <<SubSeq(s, 1, i - 1), SubSeq(s, i + Len(sep), Len(s))>>

\* os.path.dirname(path), os.path.split(path)[-1]
DirName(path) == SubSeq(path, 1, Len(path) - 1)

BaseName(path) == path[Len(path)]

\* FinishedFile.get_archived_path
get_archived_path(filepath, archive_dir) ==
    LET parent_dir == DirName(filepath)
        parent_name == BaseName(filepath)
        parentsubdir == BaseName(parent_dir)
    IN  Append(archive_dir,
               parentsubdir \o archive_split_char \o parent_name)

\* Archive.is_archive_file, on a path of components without '/'.
is_archive_file(path) ==
    /\ \E i \in 1..Len(path) : Contains(path[i], archive_split_char)
    /\ EndsWith(BaseName(path), DatExt)

\* ArchiveFile.get_dest_path: None for a name without the split
\* characters.
get_dest_path(filepath, dest_dir) ==
    LET destdirsub == BaseName(dest_dir)
        pieces == RSplit(BaseName(filepath), archive_split_char)
    IN  IF Len(pieces) # 2 THEN None
        ELSE IF EndsWith(destdirsub, pieces[1])
        THEN Append(dest_dir, pieces[2])
        ELSE dest_dir \o <<pieces[1], pieces[2]>>

\* The directory of the work, the archive directory in it, and the names
\* the .dat directory, its sub-directories and the master files can have.
WorkDir == <<<<"w">>>>

ArchiveDir == Append(WorkDir, <<"a", "r", "c", "h">>)

DatDirNames == {<<"d", "a", "t">>, <<"x", "d", "a", "t">>}

SubDirNames == {<<"s", "u", "b">>, <<"d", "a", "t">>, <<"a", "t">>}

MasterNames ==
    {<<"a">> \o DatExt, <<"b">> \o DatExt,
     <<"a", "_", "_", "b">> \o DatExt}

\* The master files: in the .dat directory or in a sub-directory of it.
MasterPaths(dat_dir) ==
    {Append(dat_dir, f) : f \in MasterNames}
    \cup {dat_dir \o <<d, f>> : d \in SubDirNames, f \in MasterNames}

InitArchive ==
    /\ pc = "finished"
    /\ \E name \in DatDirNames :
          \E filepath \in MasterPaths(Append(WorkDir, name)) :
             \E others \in SUBSET {Append(DirName(filepath), <<"o">>)} :
                /\ finished = [filepath |-> filepath,
                               dat_dir |-> Append(WorkDir, name),
                               archived_path |->
                                   get_archived_path(filepath, ArchiveDir),
                               is_archived |-> FALSE]
                /\ fsdirs = {WorkDir, Append(WorkDir, name),
                             DirName(filepath)}
                /\ fsfiles = {filepath} \cup others
    /\ archfile = None
    /\ err = "none"
    /\ row = None
    /\ part = None
    /\ cabparts = None
    /\ mozfiles = None
    /\ parts = <<>>
    /\ inputs = <<>>
    /\ calls = 0
    /\ master = None
    /\ lines = <<>>
    /\ nosplit = FALSE
    /\ otherpart = None
    /\ similar = None
    /\ mastertree = None
    /\ merged = None
    /\ outlines = None
    /\ reparsed = None
    /\ lockfile = None
    /\ procs = None
    /\ disk = None
    /\ configs = None
    /\ increments = None

\* FinishedFile.archive: the archive directory is made if needed, the
\* master file is moved to its archived path, and its directory is
\* removed if that left it empty.
Archive ==
    /\ pc = "finished"
    /\ fsfiles' = (fsfiles \ {finished.filepath})
                     \cup {finished.archived_path}
    /\ fsdirs' = IF \E f \in fsfiles' : DirName(f) = DirName(finished.filepath)
                    \/ \E d \in fsdirs : /\ Len(d) > 1
                                         /\ DirName(d) = DirName(finished.filepath)
                 THEN fsdirs \cup {ArchiveDir}
                 ELSE (fsdirs \cup {ArchiveDir})
                         \ {DirName(finished.filepath)}
    /\ finished' = [finished EXCEPT !.is_archived = TRUE]
    /\ pc' = "archived"
    /\ UNCHANGED <<row, part, cabparts, mozfiles, parts, inputs, calls, err,
                   masterVars, pairVars, treeVars, lockVars, archfile>>
    /\ UNCHANGED cfgVars

\* unarchive(datdir, archdir): Archive(archdir, datdir) lists the archive
\* directory and builds an ArchiveFile for the archived file, then
\* ArchiveFile.unarchive makes the destination directory if needed and
\* moves the file there.  os.mkdir raises OSError when the parent of the
\* directory does not exist.
Unarchive ==
    /\ pc = "archived"
    /\ \E dest \in {IF is_archive_file(finished.archived_path)
                    THEN get_dest_path(finished.archived_path,
                                       finished.dat_dir)
                    ELSE None} :
          IF dest = None
          THEN /\ archfile' = [filepath |-> finished.archived_path,
                               dest_path |-> None]
               /\ pc' = "skipped"
               /\ UNCHANGED <<fsdirs, fsfiles, err>>
          ELSE IF DirName(dest) \notin fsdirs
                  /\ DirName(DirName(dest)) \notin fsdirs
          THEN /\ archfile' = [filepath |-> finished.archived_path,
                               dest_path |-> dest]
               /\ pc' = "raised"
               /\ err' = "OSError"
               /\ UNCHANGED <<fsdirs, fsfiles>>
          ELSE /\ archfile' = [filepath |-> finished.archived_path,
                               dest_path |-> dest]
               /\ fsdirs' = fsdirs \cup {DirName(dest)}
               /\ fsfiles' = (fsfiles \ {finished.archived_path})
                                \cup {dest}
               /\ pc' = "unarchived"
               /\ UNCHANGED err
    /\ UNCHANGED <<row, part, cabparts, mozfiles, parts, inputs, calls,
                   masterVars, pairVars, treeVars, lockVars, finished>>
    /\ UNCHANGED cfgVars

NextArchive == Archive \/ Unarchive

SpecArchive == InitArchive /\ [][NextArchive]_vars

(***************************************************************************)
(* Properties of archiving (SpecArchive).                                  *)
(***************************************************************************)
\* C25: a master file of the .dat directory, or of a direct sub-directory
\* of it, that was archived under '<parent-dir-name>__<file-name>' is put
\* back by unarchive at the path it had.
C25_UnarchiveRestores ==
    (pc \in {"unarchived", "skipped", "raised"} /\ finished.is_archived) =>
        /\ pc = "unarchived"
        /\ archfile.dest_path = finished.filepath
        /\ finished.filepath \in fsfiles

(***************************************************************************)
(* The config file.  Every process has its own global `config`, loaded     *)
(* from the file on first use; config_increment changes it in memory and   *)
(* calls config_save, which loads the file again, updates what it loaded   *)
(* with the dict it was given, and writes the file.                        *)
(***************************************************************************)
MaxIncrements == 1

ConfigKeys == {"runs", "master_files"}

\* The config of a file that does not exist: JSONSettings().
EmptyConfig == [k \in {} |-> 0]

\* config.update(d)
dict_update(c, d) ==
    [k \in (DOMAIN c) \cup (DOMAIN d) |-> IF k \in DOMAIN d THEN d[k] ELSE c[k]]

\* config_get(key, default) on a loaded config.
config_get(c, key, default) == IF key \in DOMAIN c THEN c[key] ELSE default

InitConfig ==
    /\ pc = "config"
    /\ disk \in {EmptyConfig, [k \in ConfigKeys |-> 0]}
    /\ configs = [p \in Procs |->
                    [pc |-> "idle", loaded |-> FALSE, config |-> EmptyConfig,
                     key |-> "", count |-> 0]]
    /\ increments = [k \in ConfigKeys |-> 0]
    /\ err = "none"
    /\ row = None
    /\ part = None
    /\ cabparts = None
    /\ mozfiles = None
    /\ parts = <<>>
    /\ inputs = <<>>
    /\ calls = 0
    /\ master = None
    /\ lines = <<>>
    /\ nosplit = FALSE
    /\ otherpart = None
    /\ similar = None
    /\ mastertree = None
    /\ merged = None
    /\ outlines = None
    /\ reparsed = None
    /\ lockfile = None
    /\ procs = None
    /\ fsdirs = None
    /\ fsfiles = None
    /\ finished = None
    /\ archfile = None

\* What no step on the config touches.
ConfigFrame ==
    UNCHANGED <<pc, row, part, cabparts, mozfiles, parts, inputs, calls, err,
                masterVars, pairVars, treeVars, lockVars, archVars>>

\* config_get() before the config was loaded: config = config_load().
ConfigLoad(p) ==
    /\ configs[p].pc = "idle"
    /\ ~configs[p].loaded
    /\ configs' = [configs EXCEPT ![p].loaded = TRUE,
                                  ![p].config = disk]
    /\ UNCHANGED <<disk, increments>>
    /\ ConfigFrame

\* config_increment(key=1, default=0) up to its call of config_save: the
\* value is read from the config in memory and written back there.
ConfigIncrement(p) ==
    /\ configs[p].pc = "idle"
    /\ configs[p].loaded
    /\ configs[p].count < MaxIncrements
    /\ \E key \in ConfigKeys :
          configs' =
              [configs EXCEPT
                  ![p].config =
                      dict_update(configs[p].config,
                                  [k \in {key} |->
                                      config_get(configs[p].config, key, 0)
                                      + 1]),
                  ![p].key = key,
                  ![p].count = configs[p].count + 1,
                  ![p].pc = "save"]
    /\ UNCHANGED <<disk, increments>>
    /\ ConfigFrame

\* config_save(config): `config = config_load()`, then config.update(d)
\* with the dict that was handed over.
SaveReload(p) ==
    /\ configs[p].pc = "save"
    /\ configs' = [configs EXCEPT
                      ![p].config = dict_update(disk, configs[p].config),
                      ![p].pc = "write"]
    /\ UNCHANGED <<disk, increments>>
    /\ ConfigFrame

\* config_save: config.save(sort_keys=True) writes the file.
SaveWrite(p) ==
    /\ configs[p].pc = "write"
    /\ disk' = configs[p].config
    /\ increments' = [increments EXCEPT ![configs[p].key] = @ + 1]
    /\ configs' = [configs EXCEPT ![p].pc = "idle"]
    /\ ConfigFrame

NextConfig ==
    \E p \in Procs :
        \/ ConfigLoad(p)
        \/ ConfigIncrement(p)
        \/ SaveReload(p)
        \/ SaveWrite(p)

SpecConfig == InitConfig /\ [][NextConfig]_vars

(***************************************************************************)
(* Properties of the config file (SpecConfig).                             *)
(***************************************************************************)
\* The value of a key in the file, 0 for a key it does not have.
DiskValue(key) == config_get(disk, key, 0)

\* C26: once every config_increment call has returned, every increment
\* that was saved is in the file: no save has undone what another process
\* had saved.
C26_NoLostUpdate ==
    (\A p \in Procs : configs[p].pc = "idle") =>
        \A key \in ConfigKeys : DiskValue(key) = increments[key]

====
